---- MODULE Spec2Model ----
(***************************************************************************)
(* Workload revision history and rollback (pkg/rollback.go,                *)
(* pkg/history.go).  The backend (API server) is modelled by the objects   *)
(* it stores and by the outcome of each call the code issues to it.       *)
(***************************************************************************)
EXTENDS Integers, Sequences, FiniteSets, TLC

(* ------------------------------ bounds -------------------------------- *)

\* Largest revision number a snapshot or replica set carries.
MaxRevision == 3

\* Largest number of snapshots (or replica sets) owned by the workload.
MaxHistory == 3

\* Largest number of events a watch delivers during one invocation.
MaxEvents == 2

\* Largest number of interrupts delivered during one invocation.
MaxSignals == 1

(* ---------------------------- the universe ---------------------------- *)

Kinds == {"Deployment", "DaemonSet", "StatefulSet"}

Names == {"web", "db"}

Namespace == "ns"

\* Pod templates.
Templates == {"tA", "tB"}

\* Targets a caller may ask for: negative, 0 ("previous"), explicit.
Targets == (0 - 1)..MaxRevision

\* rollback.go:49-52
rollbackSuccess == "rolled back"

rollbackSkipped == "skipped rollback"

\* deploymentutil.RollbackRevisionNotFound / RollbackTemplateUnchanged / RollbackDone
RollbackRevisionNotFound == "DeploymentRollbackRevisionNotFound"

RollbackTemplateUnchanged == "DeploymentRollbackTemplateUnchanged"

RollbackDone == "DeploymentRollback"

(* ------------------------- messages and errors ------------------------ *)

\* A returned string: a format with its arguments.
Msg(fmt, rev, args) == [fmt |-> fmt, rev |-> rev, args |-> args]

EmptyMsg == Msg("", 0, <<>>)

\* A returned error; nil is NoErr.
Err(fmt, rev, args) == [fmt |-> fmt, rev |-> rev, args |-> args]

NoErr == Err("nil", 0, <<>>)

\* rollback.go:355-357
revisionNotFoundErr(r) == Err("unable to find specified revision %v in history", r, <<>>)

\* The error a backend call returns when it fails.
BackendError(op) == Err("backend error", 0, <<op>>)

(* --------------------------- pod templates ---------------------------- *)

\* printersinternal.DescribePodTemplate: the rendering of a template.
DescribePodTemplate(t) == <<"Pod Template:", t>>

\* A slip of rollback.go:344-353: the rendering never reaches the buffer.
printPodTemplateEmpty(specTemplate) == EmptyMsg

\* rollback.go:344-353
printPodTemplate(specTemplate) ==
    Msg("will roll back to %s", 0, DescribePodTemplate(specTemplate))

\* The patch the controller records for a template (daemon/statefulset
\* getPatch): the template under spec.template with "$patch": "replace".
getPatch(t) == <<"spec.template", "$patch:replace", t>>

Patches == {getPatch(t) : t \in Templates}

\* Bytes that are no patch at all.
BadPatch == <<"garbage">>

RawData == Patches \cup {BadPatch}

WellFormed(raw) ==
    Len(raw) = 3 /\ raw[1] = "spec.template" /\ raw[2] = "$patch:replace"

\* strategicpatch.StrategicMergePatch of a recorded patch onto a serialized
\* workload with template t: the template is replaced wholesale.
StrategicMergePatch(t, raw) == IF WellFormed(raw) THEN raw[3] ELSE t

\* A slip of history.go:306: the patch is applied to ds itself, not to a
\* copy of it.
applyDaemonSetHistoryInPlace(ds, history) ==
    IF WellFormed(history.Raw)
    THEN LET patched == [ds EXCEPT !.template = StrategicMergePatch(ds.template, history.Raw)]
         IN  [obj |-> patched, err |-> NoErr, ds |-> patched, history |-> history]
    ELSE [obj |-> ds, err |-> Err("invalid patch", 0, <<>>), ds |-> ds, history |-> history]

\* history.go:304-320: ds is copied and serialized, the patch is merged
\* into the bytes and the result is read back into the copy.  obj and err
\* are what is returned; ds and history are the two arguments as they are
\* in memory afterwards (only clone is written).
applyDaemonSetHistory(ds, history) ==
    LET clone == ds
    IN  IF WellFormed(history.Raw)
        THEN [obj |-> [clone EXCEPT !.template = StrategicMergePatch(clone.template, history.Raw)],
              err |-> NoErr, ds |-> ds, history |-> history]
        ELSE [obj |-> clone, err |-> Err("invalid patch", 0, <<>>),
              ds |-> ds, history |-> history]

\* statefulset.ApplyRevision: the same reconstruction on a copy of the set.
ApplyRevision(sts, history) ==
    LET clone == sts
    IN  IF WellFormed(history.Raw)
        THEN [obj |-> [clone EXCEPT !.template = StrategicMergePatch(clone.template, history.Raw)],
              err |-> NoErr]
        ELSE [obj |-> clone, err |-> Err("invalid patch", 0, <<>>)]

\* A slip of rollback.go:250-256: the live object never counts as matching.
MatchNever(obj, history) == FALSE

\* daemon.Match / statefulset.Match: the patch of the live object equals
\* the snapshot's bytes.
Match(obj, history) == getPatch(obj.template) = history.Raw

(* ------------------------------ selection ----------------------------- *)

\* rollback.go:360-366
historiesByRevisionLess(a, b) == a.Revision < b.Revision

InsertAt(s, k, x) == SubSeq(s, 1, k) \o <<x>> \o SubSeq(s, k + 1, Len(s))

\* The places a sorted s can take x and stay sorted.
SortedInsertions(s, x) ==
    {InsertAt(s, k, x) : k \in {j \in 0..Len(s) :
        /\ j = 0 \/ ~historiesByRevisionLess(x, s[j])
        /\ j = Len(s) \/ ~historiesByRevisionLess(s[j + 1], x)}}

\* sort.Sort(historiesByRevision(h)): the orders sort.Sort may leave h in
\* (it is not stable, so equal revisions may end in either order).
RECURSIVE SortByRevision(_)
SortByRevision(h) ==
    IF Len(h) <= 1 THEN {h}
    ELSE UNION {SortedInsertions(s, h[Len(h)]) : s \in SortByRevision(SubSeq(h, 1, Len(h) - 1))}

\* A slip of rollback.go:330: the last of the sorted history is taken.
PreviousIndexLast(n) == n

\* rollback.go:330: the position of the "2nd max" in the sorted history
\* of n snapshots (allHistory[len(allHistory)-2], counted from 1).
PreviousIndex(n) == n - 1

\* A slip of rollback.go:333: any revision from the target on is taken.
RevisionMatchesAtLeast(h, toRevision) == h.Revision >= toRevision

\* rollback.go:333: the snapshot an explicit target names.
RevisionMatches(h, toRevision) == h.Revision = toRevision

NoHistory == [Revision |-> 0, Raw |-> <<>>, owner |-> <<"", "">>, labels |-> "", cause |-> ""]

\* rollback.go:320-341: the values findHistory may return (nil is
\* NoHistory); more than one only when sort.Sort has a choice.
findHistory(toRevision, allHistory) ==
    IF toRevision = 0 /\ Len(allHistory) <= 1 THEN {NoHistory}
    ELSE IF toRevision = 0
         THEN {s[PreviousIndex(Len(s))] : s \in SortByRevision(allHistory)}
         ELSE IF \E i \in 1..Len(allHistory) : RevisionMatches(allHistory[i], toRevision)
              THEN LET first == CHOOSE i \in 1..Len(allHistory) :
                                  /\ RevisionMatches(allHistory[i], toRevision)
                                  /\ \A j \in 1..(i - 1) :
                                        ~RevisionMatches(allHistory[j], toRevision)
                   IN  {allHistory[first]}
              ELSE {NoHistory}

(* ------------------------------- state -------------------------------- *)

VARIABLES
    workload,     \* the live workload stored in the backend
    before,       \* the live workload when the current invocation began
    revisions,    \* the ControllerRevisions stored in the namespace
    replicaSets,  \* the ReplicaSets stored in the namespace
    inv,          \* the arguments of the current (or last) invocation
    calls,        \* the backend calls it has issued, in order
    msg,          \* the string it returned
    err,          \* the error it returned
    pc,           \* "idle", "watching" (inside watchRollbackEvent) or "done"
    watch,        \* the open watch: its result channel and stop flag
    signals,      \* the signal channel of watchRollbackEvent (capacity 1)
    wlog,         \* what each iteration of the wait loop received
    mem           \* the arguments of the invocation's applyDaemonSetHistory, as
                  \* they are in memory after it

vars == <<workload, before, revisions, replicaSets, inv, calls, msg, err, pc, watch, signals, wlog,
          mem>>

\* The label every object of the modelled workload carries, and its UID.
Selector == "app=web"

UID(kind, name) == <<kind, name>>

\* One backend call and whether the backend accepted it.
Call(op, resource, namespace, name, rev, data, ok) ==
    [op |-> op, resource |-> resource, namespace |-> namespace, name |-> name,
     rev |-> rev, data |-> data, ok |-> ok]

Mutating(c) == c.op \in {"Patch", "Rollback"}

\* The object a caller hands to Rollback: the stored workload as fetched,
\* or an object of that kind the backend does not (any longer) store.
ObjOf(w) == [kind |-> w.kind, namespace |-> Namespace, name |-> w.name, paused |-> w.paused]

Objs ==
    {ObjOf(workload)} \cup
    {[kind |-> workload.kind, namespace |-> Namespace, name |-> n, paused |-> FALSE] :
        n \in Names \ {workload.name}}

Stored(kind, namespace, name) ==
    workload.kind = kind /\ namespace = Namespace /\ workload.name = name

\* No reconstruction was made.
NoMem == [made |-> FALSE, ds |-> <<>>, history |-> <<>>]

\* What a return leaves behind.
Ret(m, e, cs, w) ==
    [msg |-> m, err |-> e, calls |-> cs, workload |-> w, pc |-> "done", mem |-> NoMem]

\* A return after the reconstruction applied.
RetApplied(m, e, cs, w, applied) ==
    [msg |-> m, err |-> e, calls |-> cs, workload |-> w, pc |-> "done",
     mem |-> [made |-> TRUE, ds |-> applied.ds, history |-> applied.history]]

\* The call has reached watchRollbackEvent with the watch opened from the
\* position from of the event stream, whose newest event is at head.
Wait(cs, w, from, head) ==
    [msg |-> EmptyMsg, err |-> NoErr, calls |-> cs, workload |-> w, pc |-> "watching",
     mem |-> NoMem, from |-> from, head |-> head]

SubsetsUpTo(S, n) == {T \in SUBSET S : Cardinality(T) <= n}

(* ------------------------- history resolution ------------------------- *)

\* A slip of history.go:250: the owner of a listed snapshot is not checked.
IsControlledByAnyone(history, accessor) == TRUE

\* metav1.IsControlledBy
IsControlledBy(history, accessor) == history.owner = UID(accessor.kind, accessor.name)

RECURSIVE SetToSeq(_)
SetToSeq(S) ==
    IF S = {} THEN <<>>
    ELSE LET x == CHOOSE y \in S : TRUE IN <<x>> \o SetToSeq(S \ {x})

Reverse(s) == [i \in 1..Len(s) |-> s[Len(s) + 1 - i]]

Rotations(s) ==
    {[i \in 1..Len(s) |-> s[((i + k - 1) % Len(s)) + 1]] : k \in 0..(Len(s) - 1)} \cup {s}

\* The orders in which a List may return the stored objects S: the
\* rotations of one enumeration and of its reverse (every order of up to
\* three objects).
ListOrders(S) == Rotations(SetToSeq(S)) \cup Rotations(Reverse(SetToSeq(S)))

\* The snapshots a List with the selector may return.
ListControllerRevisions(selector) ==
    ListOrders({r \in revisions : r.labels = selector})

\* history.go:237-255, after a successful List returning items.
controlledHistory(items, accessor) ==
    SelectSeq(items, LAMBDA history : IsControlledBy(history, accessor))

\* history.go:258-279 and 282-302 (kind names the typed client used):
\* Get, then List; fail names the call the backend fails, if any.  One
\* result for each order the List may return.
workloadHistory(kind, namespace, name, fail) ==
    LET get == Call("Get", kind, namespace, name, 0, <<>>, Stored(kind, namespace, name))
        list == Call("List", "ControllerRevision", namespace, "", 0, <<Selector>>,
                     fail # "List")
    IN  IF ~get.ok
        THEN {[obj |-> workload, history |-> <<>>, calls |-> <<get>>,
               err |-> Err("failed to retrieve %s %s: %v", 0, <<kind, name>>)]}
        ELSE IF ~list.ok
        THEN {[obj |-> workload, history |-> <<>>, calls |-> <<get, list>>,
               err |-> Err("unable to find history controlled by %s %s: %v", 0, <<kind, name>>)]}
        ELSE {[obj |-> workload, history |-> controlledHistory(items, workload),
               calls |-> <<get, list>>, err |-> NoErr] :
                  items \in ListControllerRevisions(Selector)}

daemonSetHistory(namespace, name, fail) ==
    workloadHistory("DaemonSet", namespace, name, fail)

statefulSetHistory(namespace, name, fail) ==
    workloadHistory("StatefulSet", namespace, name, fail)

(* ------------------- client-reconstructed rollback -------------------- *)

\* A slip of rollback.go:241: the dry-run return is missing.
PreviewOnlyIgnored(dryRun) == FALSE

\* rollback.go:80, 241, 292: a dry run returns before anything is changed.
PreviewOnly(dryRun) == dryRun

\* A slip of rollback.go:221: a negative target is not turned away.
NegativeRevisionAccepted(toRevision) == FALSE

\* rollback.go:221, 272: a target below 0 names no revision.
NegativeRevision(toRevision) == toRevision < 0

\* A slip of rollback.go:232: one snapshot is taken to be enough.
NoLastRevisionOffByOne(toRevision, history) == toRevision = 0 /\ Len(history) < 1

\* rollback.go:232, 283: target 0 needs a revision before the current one.
NoLastRevision(toRevision, history) == toRevision = 0 /\ Len(history) <= 1

\* The backend's answer to a Patch of resource/name with the bytes raw:
\* accepted when the object is stored, the bytes are a patch and the
\* backend does not fail the call.
PatchAccepted(resource, namespace, name, raw, fail) ==
    fail # "Patch" /\ Stored(resource, namespace, name) /\ WellFormed(raw)

\* The stored workload after an accepted Patch (one atomic replacement).
Patched(w, raw) == [w EXCEPT !.template = StrategicMergePatch(w.template, raw)]

\* A slip of rollback.go:259: the Patch goes to the default namespace.
DaemonSetPatchDefaultNamespace(accessor, toHistory, fail) ==
    Call("Patch", "DaemonSet", "default", accessor.name, 0, toHistory.Raw,
         PatchAccepted("DaemonSet", "default", accessor.name, toHistory.Raw, fail))

\* rollback.go:259: the Patch of the DaemonSet named by the passed object.
DaemonSetPatch(accessor, toHistory, fail) ==
    Call("Patch", "DaemonSet", accessor.namespace, accessor.name, 0, toHistory.Raw,
         PatchAccepted("DaemonSet", accessor.namespace, accessor.name, toHistory.Raw, fail))

\* A slip of rollback.go:310: the Patch is sent to the snapshot, not to the
\* StatefulSet.
StatefulSetPatchOfSnapshot(sts, toHistory, fail) ==
    Call("Patch", "ControllerRevision", Namespace, sts.name, toHistory.Revision, toHistory.Raw,
         fail # "Patch")

\* rollback.go:310: the Patch of the fetched StatefulSet.
StatefulSetPatch(sts, toHistory, fail) ==
    Call("Patch", "StatefulSet", Namespace, sts.name, 0, toHistory.Raw,
         PatchAccepted("StatefulSet", Namespace, sts.name, toHistory.Raw, fail))

\* A slip of rollback.go:258-263: a failed Patch is issued once more.
RestoreRetried(patch) == IF patch.ok THEN <<patch>> ELSE <<patch, patch>>

\* rollback.go:258-263 / 309-314: the calls of the restore step.
Restore(patch) == <<patch>>

\* rollback.go:241-263, once toHistory is resolved.
DaemonSetApply(accessor, ds, cs, toRevision, dryRun, toHistory, fail) ==
    IF toHistory = NoHistory
    THEN Ret(EmptyMsg, revisionNotFoundErr(toRevision), cs, workload)
    ELSE IF PreviewOnly(dryRun)
    THEN LET applied == applyDaemonSetHistory(ds, toHistory)
         IN  IF applied.err # NoErr
             THEN RetApplied(EmptyMsg, applied.err, cs, workload, applied)
             ELSE RetApplied(printPodTemplate(applied.obj.template), NoErr, cs, workload,
                             applied)
    ELSE IF Match(ds, toHistory)
    THEN Ret(Msg("%s (current template already matches revision %d)", toRevision,
                 <<rollbackSkipped>>), NoErr, cs, workload)
    ELSE LET patch == DaemonSetPatch(accessor, toHistory, fail)
         IN  IF ~patch.ok
             THEN Ret(EmptyMsg, Err("failed restoring revision %d: %v", toRevision, <<>>),
                      cs \o Restore(patch), workload)
             ELSE Ret(Msg(rollbackSuccess, 0, <<>>), NoErr, cs \o Restore(patch),
                      Patched(workload, toHistory.Raw))

\* rollback.go:228-239, for one result h of daemonSetHistory.
DaemonSetRollbackFrom(obj, h, toRevision, dryRun, fail) ==
    IF h.err # NoErr
    THEN {Ret(EmptyMsg, h.err, h.calls, workload)}
    ELSE IF NoLastRevision(toRevision, h.history)
    THEN {Ret(EmptyMsg, Err("no last revision to roll back to", 0, <<>>), h.calls, workload)}
    ELSE {DaemonSetApply(obj, h.obj, h.calls, toRevision, dryRun, toHistory, fail) :
              toHistory \in findHistory(toRevision, h.history)}

\* A slip of rollback.go:220-264: the annotations handed in are written to
\* the DaemonSet with a Patch of their own at the end of the invocation.
DaemonSetRollbackOutcomesAnnotating(obj, updatedAnnotations, toRevision, dryRun, fail) ==
    LET outs == IF NegativeRevision(toRevision)
                THEN {Ret(EmptyMsg, revisionNotFoundErr(toRevision), <<>>, workload)}
                ELSE UNION {DaemonSetRollbackFrom(obj, h, toRevision, dryRun, fail) :
                                h \in daemonSetHistory(obj.namespace, obj.name, fail)}
    IN  IF updatedAnnotations = "none"
        THEN outs
        ELSE {[out EXCEPT !.calls = @ \o <<Call("Patch", "DaemonSet", obj.namespace,
                                                 obj.name, 0, updatedAnnotations, TRUE)>>] :
                  out \in outs}

\* rollback.go:220-264: DaemonSetRollbacker.Rollback; updatedAnnotations is
\* a parameter the body never reads.
DaemonSetRollbackOutcomes(obj, updatedAnnotations, toRevision, dryRun, fail) ==
    IF NegativeRevision(toRevision)
    THEN {Ret(EmptyMsg, revisionNotFoundErr(toRevision), <<>>, workload)}
    ELSE UNION {DaemonSetRollbackFrom(obj, h, toRevision, dryRun, fail) :
                    h \in daemonSetHistory(obj.namespace, obj.name, fail)}

\* rollback.go:292-314, once toHistory is resolved.
StatefulSetApply(sts, cs, toRevision, dryRun, toHistory, fail) ==
    IF toHistory = NoHistory
    THEN Ret(EmptyMsg, revisionNotFoundErr(toRevision), cs, workload)
    ELSE IF PreviewOnly(dryRun)
    THEN LET applied == ApplyRevision(sts, toHistory)
         IN  IF applied.err # NoErr
             THEN Ret(EmptyMsg, applied.err, cs, workload)
             ELSE Ret(printPodTemplate(applied.obj.template), NoErr, cs, workload)
    ELSE IF Match(sts, toHistory)
    THEN Ret(Msg("%s (current template already matches revision %d)", toRevision,
                 <<rollbackSkipped>>), NoErr, cs, workload)
    ELSE LET patch == StatefulSetPatch(sts, toHistory, fail)
         IN  IF ~patch.ok
             THEN Ret(EmptyMsg, Err("failed restoring revision %d: %v", toRevision, <<>>),
                      cs \o Restore(patch), workload)
             ELSE Ret(Msg(rollbackSuccess, 0, <<>>), NoErr, cs \o Restore(patch),
                      Patched(workload, toHistory.Raw))

\* rollback.go:279-290, for one result h of statefulSetHistory.
StatefulSetRollbackFrom(obj, h, toRevision, dryRun, fail) ==
    IF h.err # NoErr
    THEN {Ret(EmptyMsg, h.err, h.calls, workload)}
    ELSE IF NoLastRevision(toRevision, h.history)
    THEN {Ret(EmptyMsg, Err("no last revision to roll back to", 0, <<>>), h.calls, workload)}
    ELSE {StatefulSetApply(h.obj, h.calls, toRevision, dryRun, toHistory, fail) :
              toHistory \in findHistory(toRevision, h.history)}

StatefulSetRollbackOutcomes(obj, updatedAnnotations, toRevision, dryRun, fail) ==
    IF NegativeRevision(toRevision)
    THEN {Ret(EmptyMsg, revisionNotFoundErr(toRevision), <<>>, workload)}
    ELSE UNION {StatefulSetRollbackFrom(obj, h, toRevision, dryRun, fail) :
                    h \in statefulSetHistory(obj.namespace, obj.name, fail)}

Invocation(variant, obj, updatedAnnotations, toRevision, dryRun) ==
    [variant |-> variant, obj |-> obj, updatedAnnotations |-> updatedAnnotations,
     toRevision |-> toRevision, dryRun |-> dryRun]

Annotations == {"none", "change-cause=undo"}

NoWatch == [open |-> FALSE, stopped |-> FALSE, closed |-> FALSE, from |-> 0, head |-> 0]

\* The synchronous part of an invocation has run: the state it leaves.
Return(i, out) ==
    /\ inv' = i
    /\ calls' = out.calls
    /\ msg' = out.msg
    /\ err' = out.err
    /\ workload' = out.workload
    /\ before' = workload
    /\ pc' = out.pc
    /\ watch' = IF out.pc = "watching"
                THEN [NoWatch EXCEPT !.open = TRUE, !.from = out.from, !.head = out.head]
                ELSE NoWatch
    /\ signals' = 0
    /\ wlog' = <<>>
    /\ mem' = out.mem
    /\ UNCHANGED <<revisions, replicaSets>>

DaemonSetRollback ==
    /\ pc = "idle"
    /\ \E obj \in {o \in Objs : o.kind = "DaemonSet"}, toRevision \in Targets,
          dryRun \in BOOLEAN, ann \in Annotations, fail \in {"none", "List", "Patch"} :
         \E out \in DaemonSetRollbackOutcomes(obj, ann, toRevision, dryRun, fail) :
             Return(Invocation("DaemonSet", obj, ann, toRevision, dryRun), out)

StatefulSetRollback ==
    /\ pc = "idle"
    /\ \E obj \in {o \in Objs : o.kind = "StatefulSet"}, toRevision \in Targets,
          dryRun \in BOOLEAN, ann \in Annotations, fail \in {"none", "List", "Patch"} :
         \E out \in StatefulSetRollbackOutcomes(obj, ann, toRevision, dryRun, fail) :
             Return(Invocation("StatefulSet", obj, ann, toRevision, dryRun), out)

(* ----------------------- server-assisted rollback --------------------- *)

\* deploymentutil.Revision: the revision annotation of a replica set; 0
\* when there is none, an error when it is no number.
RevisionOf(rs) ==
    IF ~rs.annotated THEN [v |-> 0, err |-> FALSE]
    ELSE IF ~rs.numeric THEN [v |-> 0, err |-> TRUE]
    ELSE [v |-> rs.revision, err |-> FALSE]

\* deploymentutil.GetAllReplicaSets: the replica sets owned by the
\* deployment, old ones then the new one, in the orders a List may give.
GetAllReplicaSets(deployment) ==
    ListOrders({rs \in replicaSets : rs.owner = UID("Deployment", deployment.name)})

\* rollback.go:169-176: a later replica set overwrites an earlier one of
\* the same revision.
RevisionToSpec(allRSs) ==
    LET ok == {i \in 1..Len(allRSs) : ~RevisionOf(allRSs[i]).err}
        keys == {RevisionOf(allRSs[i]).v : i \in ok}
        last(v) == CHOOSE i \in ok :
                      /\ RevisionOf(allRSs[i]).v = v
                      /\ \A j \in ok : RevisionOf(allRSs[j]).v = v => j <= i
    IN  [v \in keys |-> allRSs[last(v)].template]

Min(S) == CHOOSE x \in S : \A y \in S : x <= y

\* sliceutil.SortInts64 of the numbers S: ascending.
RECURSIVE SortInts64(_)
SortInts64(S) == IF S = {} THEN <<>> ELSE <<Min(S)>> \o SortInts64(S \ {Min(S)})

\* A slip of rollback.go:204: the highest revision is taken.
PreviousRevisionLast(sorted) == sorted[Len(sorted)]

\* rollback.go:204: revisions[len(revisions)-2] of the sorted revisions.
PreviousRevision(sorted) == sorted[Len(sorted) - 1]

\* rollback.go:178-213, for one result allRSs of GetAllReplicaSets.
simpleDryRunFrom(deployment, cs, allRSs, toRevision) ==
    LET revisionToSpec == RevisionToSpec(allRSs)
        sorted == SortInts64(DOMAIN revisionToSpec)
    IN  IF Cardinality(DOMAIN revisionToSpec) < 2
        THEN Ret(EmptyMsg, Err("no rollout history found for deployment %q", 0,
                               <<deployment.name>>), cs, workload)
        ELSE IF toRevision > 0
        THEN IF toRevision \notin DOMAIN revisionToSpec
             THEN Ret(EmptyMsg, revisionNotFoundErr(toRevision), cs, workload)
             ELSE Ret(Msg("%s", 0, DescribePodTemplate(revisionToSpec[toRevision])),
                      NoErr, cs, workload)
        ELSE Ret(Msg("\\n%s", 0,
                     DescribePodTemplate(revisionToSpec[PreviousRevision(sorted)])),
                 NoErr, cs, workload)

\* rollback.go:154-214
simpleDryRun(deployment, toRevision, fail) ==
    LET list == Call("List", "ReplicaSet", deployment.namespace, "", 0, <<Selector>>,
                     fail # "List")
    IN  IF ~list.ok
        THEN {Ret(EmptyMsg, Err("failed to retrieve replica sets from deployment %s: %v", 0,
                                <<deployment.name>>), <<list>>, workload)}
        ELSE {simpleDryRunFrom(deployment, <<list>>, allRSs, toRevision) :
                  allRSs \in GetAllReplicaSets(deployment)}

\* A slip of rollback.go:83: the paused flag is not looked at.
IsPausedIgnored(d) == FALSE

\* rollback.go:83: the check that rejects a paused deployment.
IsPaused(d) == d.paused

\* rollback.go:101: the native rollback request and the backend's answer;
\* the backend takes it for a stored deployment and a revision >= 0.
NativeRollback(d, updatedAnnotations, toRevision, fail) ==
    Call("Rollback", "Deployment", d.namespace, d.name, toRevision, <<updatedAnnotations>>,
         fail # "Rollback" /\ Stored("Deployment", d.namespace, d.name) /\ toRevision >= 0)

\* The stored deployment after an accepted rollback request: the request
\* is recorded in its spec for the backend's controller to carry out.
RolledBack(w) == [w EXCEPT !.rollbackTo = "set"]

\* The position of the event stream when the events are listed; positions
\* are counted from there.
Listed == 0

\* rollback.go:96: the resourceVersion of the listed events.
ResourceVersion(events) == events.rev

\* A slip of rollback.go:105: the watch is opened without the
\* resourceVersion, from the newest event on.
WatchFromHead(events, head) == head

\* rollback.go:105: the watch is opened from the listed resourceVersion.
WatchFrom(events, head) == ResourceVersion(events)

\* rollback.go:83-110, up to the call of watchRollbackEvent; emitted is
\* the number of events the backend emits after it took the rollback and
\* before the watch is opened.
DeploymentSubmit(d, updatedAnnotations, toRevision, fail, emitted) ==
    LET events == Call("List", "Event", d.namespace, "", Listed, <<>>, fail # "Events")
        rollback == NativeRollback(d, updatedAnnotations, toRevision, fail)
        head == Listed + emitted
        watching == Call("Watch", "Event", d.namespace, "", WatchFrom(events, head), <<>>,
                         fail # "Watch")
    IN  IF IsPaused(d)
        THEN Ret(EmptyMsg, Err("you cannot rollback a paused deployment", 0, <<d.name>>),
                 <<>>, workload)
        ELSE IF ~events.ok
        THEN Ret(EmptyMsg, BackendError("List"), <<events>>, workload)
        ELSE IF ~rollback.ok
        THEN Ret(EmptyMsg, BackendError("Rollback"), <<events, rollback>>, workload)
        ELSE IF ~watching.ok
        THEN Ret(EmptyMsg, BackendError("Watch"), <<events, rollback, watching>>,
                 RolledBack(workload))
        ELSE Wait(<<events, rollback, watching>>, RolledBack(workload), watching.rev, head)

\* rollback.go:75-111, up to the call of watchRollbackEvent.
DeploymentRollbackOutcomes(obj, updatedAnnotations, toRevision, dryRun, fail) ==
    IF obj.kind # "Deployment"
    THEN {Ret(EmptyMsg, Err("passed object is not a Deployment: %#v", 0, <<obj.kind>>),
              <<>>, workload)}
    ELSE IF PreviewOnly(dryRun)
    THEN simpleDryRun(obj, toRevision, fail)
    ELSE {DeploymentSubmit(obj, updatedAnnotations, toRevision, fail, emitted) :
              emitted \in 0..1}

DeploymentRollback ==
    /\ pc = "idle"
    /\ \E obj \in {o \in Objs : o.kind = "Deployment"} \cup {ObjOf(workload)},
          toRevision \in Targets, dryRun \in BOOLEAN, ann \in Annotations,
          fail \in {"none", "List", "Events", "Rollback", "Watch"} :
         \E out \in DeploymentRollbackOutcomes(obj, ann, toRevision, dryRun, fail) :
             Return(Invocation("Deployment", obj, ann, toRevision, dryRun), out)

(* ----------------------------- history viewers ------------------------ *)

\* history.go:339-345: the change-cause annotation of an object ("" when
\* it has none).
getChangeCause(obj) == obj.cause

\* history.go:139-148
printTemplate(template) == Msg("%s", 0, DescribePodTemplate(template))

\* history.go:323-336: the table written through the tabwriter, the header
\* line and then one line of cells for a row.
tabbedString(header, rows) == Msg("table", 0, <<header>> \o rows)

NoRolloutHistoryFound == Msg("No rollout history found.", 0, <<>>)

UnableToFindRevision == Err("unable to find the specified revision", 0, <<>>)

\* A slip of history.go:130-132: an empty change cause is printed as it is.
ChangeCauseCellBlank(changeCause) == changeCause

\* history.go:129-132, 195-198: the cell of the CHANGE-CAUSE column.
ChangeCauseCell(changeCause) == IF changeCause = "" THEN "<none>" ELSE changeCause

\* history.go:126-134, 192-200: one row for a revision of the sorted
\* revisions, with the change cause historyInfo holds for it.
ChangeCauseTable(sorted, historyInfo) ==
    tabbedString(<<"REVISION", "CHANGE-CAUSE">>,
                 [i \in 1..Len(sorted) |->
                     <<sorted[i], ChangeCauseCell(historyInfo[sorted[i]].cause)>>])

\* history.go:89-103: revision -> pod template of the last listed replica
\* set of that revision; the replica set's change cause, when it has one,
\* is written into the template's annotations, which may hold one already.
DeploymentHistoryInfo(allRSs) ==
    LET ok == {i \in 1..Len(allRSs) : ~RevisionOf(allRSs[i]).err}
        keys == {RevisionOf(allRSs[i]).v : i \in ok}
        last(v) == CHOOSE i \in ok :
                      /\ RevisionOf(allRSs[i]).v = v
                      /\ \A j \in ok : RevisionOf(allRSs[j]).v = v => j <= i
        annotated(rs) == IF getChangeCause(rs) # "" THEN getChangeCause(rs)
                         ELSE rs.templateCause
    IN  [v \in keys |-> [template |-> allRSs[last(v)].template,
                         cause |-> annotated(allRSs[last(v)])]]

\* history.go:105-136, for one result allRSs of GetAllReplicaSets.
DeploymentViewHistoryFrom(cs, allRSs, revision) ==
    LET historyInfo == DeploymentHistoryInfo(allRSs)
    IN  IF DOMAIN historyInfo = {}
        THEN Ret(NoRolloutHistoryFound, NoErr, cs, workload)
        ELSE IF revision > 0
        THEN IF revision \notin DOMAIN historyInfo
             THEN Ret(EmptyMsg, UnableToFindRevision, cs, workload)
             ELSE Ret(printTemplate(historyInfo[revision].template), NoErr, cs, workload)
        ELSE Ret(ChangeCauseTable(SortInts64(DOMAIN historyInfo), historyInfo), NoErr,
                 cs, workload)

\* history.go:74-137; fail names the call the backend fails, if any.
DeploymentViewHistoryOutcomes(namespace, name, revision, fail) ==
    LET get == Call("Get", "Deployment", namespace, name, 0, <<>>,
                    Stored("Deployment", namespace, name))
        list == Call("List", "ReplicaSet", namespace, "", 0, <<Selector>>, fail # "List")
    IN  IF ~get.ok
        THEN {Ret(EmptyMsg, Err("failed to retrieve deployment %s: %v", 0, <<name>>),
                  <<get>>, workload)}
        ELSE IF ~list.ok
        THEN {Ret(EmptyMsg, Err("failed to retrieve replica sets from deployment %s: %v", 0,
                                <<name>>), <<get, list>>, workload)}
        ELSE {DeploymentViewHistoryFrom(<<get, list>>, allRSs, revision) :
                  allRSs \in GetAllReplicaSets(workload)}

\* history.go:161-165: revision -> the last listed snapshot of that revision.
SnapshotHistoryInfo(history) ==
    LET keys == {history[i].Revision : i \in 1..Len(history)}
        last(v) == CHOOSE i \in 1..Len(history) :
                      /\ history[i].Revision = v
                      /\ \A j \in 1..Len(history) : history[j].Revision = v => j <= i
    IN  [v \in keys |-> history[last(v)]]

\* history.go:158-202, for one result h of daemonSetHistory.
DaemonSetViewHistoryFrom(h, revision) ==
    LET historyInfo == SnapshotHistoryInfo(h.history)
    IN  IF h.err # NoErr
        THEN Ret(EmptyMsg, h.err, h.calls, workload)
        ELSE IF DOMAIN historyInfo = {}
        THEN Ret(NoRolloutHistoryFound, NoErr, h.calls, workload)
        ELSE IF revision > 0
        THEN IF revision \notin DOMAIN historyInfo
             THEN Ret(EmptyMsg, UnableToFindRevision, h.calls, workload)
             ELSE LET dsOfHistory == applyDaemonSetHistory(h.obj, historyInfo[revision])
                  IN  IF dsOfHistory.err # NoErr
                      THEN RetApplied(EmptyMsg,
                                      Err("unable to parse history %s", revision, <<>>),
                                      h.calls, workload, dsOfHistory)
                      ELSE RetApplied(printTemplate(dsOfHistory.obj.template), NoErr,
                                      h.calls, workload, dsOfHistory)
        ELSE Ret(ChangeCauseTable(SortInts64(DOMAIN historyInfo), historyInfo), NoErr,
                 h.calls, workload)

\* history.go:156-203
DaemonSetViewHistoryOutcomes(namespace, name, revision, fail) ==
    {DaemonSetViewHistoryFrom(h, revision) : h \in daemonSetHistory(namespace, name, fail)}

\* sliceutil.SortInts64 of a slice that may hold a number more than once.
RECURSIVE SortInts64Slice(_)
SortInts64Slice(s) ==
    IF Len(s) = 0 THEN <<>>
    ELSE LET m == Min({s[i] : i \in 1..Len(s)})
             at == CHOOSE i \in 1..Len(s) : s[i] = m
         IN  <<m>> \o SortInts64Slice(SubSeq(s, 1, at - 1) \o SubSeq(s, at + 1, Len(s)))

\* history.go:221-224: make([]int64, len(history)) holds len(history)
\* zeros, and the revisions are appended after them.
StatefulSetRevisions(history) ==
    [i \in 1..Len(history) |-> 0] \o [i \in 1..Len(history) |-> history[i].Revision]

\* history.go:213-233, for one result h of statefulSetHistory; the
\* requested revision is not looked at.
StatefulSetViewHistoryFrom(h, revision) ==
    IF h.err # NoErr
    THEN Ret(EmptyMsg, h.err, h.calls, workload)
    ELSE IF Len(h.history) <= 0
    THEN Ret(NoRolloutHistoryFound, NoErr, h.calls, workload)
    ELSE LET sorted == SortInts64Slice(StatefulSetRevisions(h.history))
         IN  Ret(tabbedString(<<"REVISION">>, [i \in 1..Len(sorted) |-> <<sorted[i]>>]),
                 NoErr, h.calls, workload)

\* history.go:212-234
StatefulSetViewHistoryOutcomes(namespace, name, revision, fail) ==
    {StatefulSetViewHistoryFrom(h, revision) : h \in statefulSetHistory(namespace, name, fail)}

\* history.go:56-66: the viewer of the workload's kind is asked for the
\* history of namespace/name.
Viewing(variant, kind, name, revision) ==
    Invocation(variant, [kind |-> kind, namespace |-> Namespace, name |-> name,
                         paused |-> FALSE], "none", revision, FALSE)

DeploymentViewHistory ==
    /\ pc = "idle"
    /\ workload.kind = "Deployment"
    /\ \E name \in Names, revision \in Targets, fail \in {"none", "List"} :
         \E out \in DeploymentViewHistoryOutcomes(Namespace, name, revision, fail) :
             Return(Viewing("DeploymentHistoryViewer", "Deployment", name, revision), out)

DaemonSetViewHistory ==
    /\ pc = "idle"
    /\ workload.kind = "DaemonSet"
    /\ \E name \in Names, revision \in Targets, fail \in {"none", "List"} :
         \E out \in DaemonSetViewHistoryOutcomes(Namespace, name, revision, fail) :
             Return(Viewing("DaemonSetHistoryViewer", "DaemonSet", name, revision), out)

StatefulSetViewHistory ==
    /\ pc = "idle"
    /\ workload.kind = "StatefulSet"
    /\ \E name \in Names, revision \in Targets, fail \in {"none", "List"} :
         \E out \in StatefulSetViewHistoryOutcomes(Namespace, name, revision, fail) :
             Return(Viewing("StatefulSetHistoryViewer", "StatefulSet", name, revision), out)

(* --------------------------- completion watch ------------------------- *)

\* An object delivered on the watch's result channel.
Event(reason, about) ==
    [isEvent |-> TRUE, reason |-> reason, message |-> "about " \o about, about |-> about]

\* A delivered object that is no event (the status of a watch error).
StatusObject == [isEvent |-> FALSE, reason |-> "", message |-> "", about |-> ""]

SentinelReasons == {RollbackRevisionNotFound, RollbackTemplateUnchanged, RollbackDone}

\* The objects the watch may deliver: the sentinel events about the
\* deployment, a rollback event about another one, an event of another
\* reason, and the status of a failed watch.
EventObjects ==
    {Event(r, "web") : r \in SentinelReasons}
        \cup {Event(RollbackDone, "db"), Event("ScalingReplicaSet", "web"), StatusObject}

\* A slip of rollback.go:142: only "rollback done" is taken for a sentinel.
isRollbackEventDoneOnly(e) ==
    IF e.reason = RollbackDone
    THEN [is |-> TRUE, result |-> Msg(rollbackSuccess, 0, <<>>)]
    ELSE [is |-> FALSE, result |-> EmptyMsg]

\* rollback.go:141-152
isRollbackEvent(e) ==
    IF e.reason \in SentinelReasons
    THEN IF e.reason = RollbackDone
         THEN [is |-> TRUE, result |-> Msg(rollbackSuccess, 0, <<>>)]
         ELSE [is |-> TRUE,
               result |-> Msg("%s (%s: %s)", 0, <<rollbackSkipped, e.reason, e.message>>)]
    ELSE [is |-> FALSE, result |-> EmptyMsg]

Received(what, e) == [what |-> what, event |-> e]

Delivered == Len(SelectSeq(wlog, LAMBDA x : x.what = "event"))

Signalled == \E i \in 1..Len(wlog) : wlog[i].what = "signal"

Interrupts == signals + Len(SelectSeq(wlog, LAMBDA x : x.what = "signal"))

\* What the loop received since the signal case first called w.Stop().
AfterStop ==
    IF ~Signalled THEN 0
    ELSE LET at == CHOOSE i \in 1..Len(wlog) :
                     /\ wlog[i].what = "signal"
                     /\ \A j \in 1..(i - 1) : wlog[j].what # "signal"
         IN  Len(SelectSeq(SubSeq(wlog, at + 1, Len(wlog)), LAMBDA x : x.what # "signal"))

\* watchRollbackEvent returns result.
WatchReturn(result, stopped, closed) ==
    /\ pc' = "done"
    /\ msg' = result
    /\ err' = NoErr
    /\ watch' = [watch EXCEPT !.stopped = stopped, !.closed = closed]
    /\ signals' = 0
    /\ UNCHANGED <<workload, before, revisions, replicaSets, inv, calls, mem>>

\* rollback.go:119-132 with ok: the backend delivers e and the loop
\* receives it.  A stopped watch still delivers the event its sender was
\* handing over when Stop was called.
WatchEvent ==
    /\ pc = "watching"
    /\ ~watch.closed
    /\ Delivered < MaxEvents
    /\ watch.stopped => AfterStop = 0
    /\ \E e \in EventObjects :
         /\ wlog' = Append(wlog, Received("event", e))
         /\ IF ~e.isEvent
            THEN WatchReturn(EmptyMsg, TRUE, watch.closed)
            ELSE IF isRollbackEvent(e).is
            THEN WatchReturn(isRollbackEvent(e).result, TRUE, watch.closed)
            ELSE UNCHANGED <<workload, before, revisions, replicaSets, inv, calls, msg, err, pc,
                             watch, signals, mem>>

\* A slip of rollback.go:120-122: on a closed channel the rollback is
\* submitted and the watch opened once more, and the wait goes on.
OnClosedRetried(cs) ==
    [result |-> EmptyMsg, calls |-> cs \o SubSeq(cs, 2, Len(cs)), pc |-> "watching"]

\* rollback.go:120-122: on a closed channel the wait returns "" and issues
\* no call.
OnClosed(cs) == [result |-> EmptyMsg, calls |-> cs, pc |-> "done"]

\* rollback.go:119-122 with !ok: the result channel is closed (by the
\* backend, or as the effect of Stop) and the loop sees it.
WatchClosed ==
    /\ pc = "watching"
    /\ wlog' = Append(wlog, Received("closed", StatusObject))
    /\ LET out == OnClosed(calls)
       IN  /\ pc' = out.pc
           /\ msg' = out.result
           /\ calls' = out.calls
    /\ err' = NoErr
    /\ watch' = [watch EXCEPT !.closed = TRUE]
    /\ signals' = 0
    /\ UNCHANGED <<workload, before, revisions, replicaSets, inv, mem>>

\* An interrupt is delivered to the process: signal.Notify puts it on the
\* channel of capacity 1 (rollback.go:115-116).
SignalArrives ==
    /\ pc = "watching"
    /\ signals = 0
    /\ Interrupts < MaxSignals
    /\ signals' = 1
    /\ UNCHANGED <<workload, before, revisions, replicaSets, inv, calls, msg, err, pc, watch, wlog,
                   mem>>

\* rollback.go:133-134: the signal case of the select.
WatchSignal ==
    /\ pc = "watching"
    /\ signals = 1
    /\ signals' = 0
    /\ watch' = [watch EXCEPT !.stopped = TRUE]
    /\ wlog' = Append(wlog, Received("signal", StatusObject))
    /\ UNCHANGED <<workload, before, revisions, replicaSets, inv, calls, msg, err, pc, mem>>

(* ------------------------------ the system ---------------------------- *)

\* A replica set of the deployment: its revision annotation, its template,
\* its change-cause annotation and the one its pod template carries ("" when
\* there is none).
ReplicaSet(annotated, numeric, revision, template, cause, templateCause) ==
    [annotated |-> annotated, numeric |-> numeric, revision |-> revision,
     template |-> template, cause |-> cause, templateCause |-> templateCause,
     owner |-> UID("Deployment", "web")]

\* The change cause recorded with revision r: none with the first one.
CauseAt(r) == IF r = 1 THEN "" ELSE "kubectl set image, " \o ToString(r)

\* The template the deployment had at revision r.
TemplateAt(r) == "t" \o ToString(r)

\* Replica sets with a revision annotation, one for a revision.
AnnotatedReplicaSets ==
    SubsetsUpTo({ReplicaSet(TRUE, TRUE, r, TemplateAt(r), CauseAt(r), "") : r \in 1..MaxRevision},
                MaxHistory)

\* Other replica sets the deployment may own: one without a revision
\* annotation, one whose annotation is no number, a second one annotated
\* with revision 1, and one of revision 2 whose pod template carries a
\* change-cause annotation of its own.
OtherReplicaSets ==
    {ReplicaSet(FALSE, FALSE, 0, "tA", "", ""), ReplicaSet(TRUE, FALSE, 0, "tB", "", ""),
     ReplicaSet(TRUE, TRUE, 1, "tB", "kubectl edit", ""),
     ReplicaSet(TRUE, TRUE, 2, "tA", "", "from the template")}

\* The change-cause annotation of a snapshot recording raw: the snapshots
\* of template tA carry none.
CauseOf(raw) == IF raw = getPatch("tA") THEN "" ELSE "kubectl apply"

\* A snapshot recorded for the workload.
Revision(rev, raw, owner, labels) ==
    [Revision |-> rev, Raw |-> raw, owner |-> owner, labels |-> labels, cause |-> CauseOf(raw)]

\* Snapshots of the workload itself.
OwnRevisions(kind) ==
    {Revision(r, raw, UID(kind, "web"), Selector) : r \in 1..MaxRevision, raw \in Patches}

\* Other snapshots the namespace may hold: one with the workload's labels
\* but another owner, one of the workload under other labels, and one of
\* the workload whose bytes are no patch.
OtherRevisions(kind) ==
    {Revision(MaxRevision, getPatch("tB"), UID(kind, "db"), Selector),
     Revision(1, getPatch("tA"), UID(kind, "web"), "app=db"),
     Revision(MaxRevision, BadPatch, UID(kind, "web"), Selector)}

NoInvocation == Invocation("", [kind |-> "", namespace |-> "", name |-> "", paused |-> FALSE], "none", 0, FALSE)

\* The namespace holds one workload: a daemon set or stateful set with
\* its snapshots, or a deployment with its replica sets.
InitControlled ==
    \E kind \in {"DaemonSet", "StatefulSet"}, t \in Templates :
        /\ workload = [kind |-> kind, name |-> "web", template |-> t, paused |-> FALSE,
                       rollbackTo |-> "nil"]
        /\ \E own \in SubsetsUpTo(OwnRevisions(kind), MaxHistory),
              other \in SubsetsUpTo(OtherRevisions(kind), 1) :
              revisions = own \cup other
        /\ replicaSets = {}

InitDeployment ==
    \E paused \in BOOLEAN :
        /\ workload = [kind |-> "Deployment", name |-> "web", template |-> TemplateAt(MaxRevision),
                       paused |-> paused, rollbackTo |-> "nil"]
        /\ revisions = {}
        /\ \E own \in AnnotatedReplicaSets, other \in SubsetsUpTo(OtherReplicaSets, 1) :
              replicaSets = own \cup other

Init ==
    /\ InitControlled \/ InitDeployment
    /\ before = workload
    /\ inv = NoInvocation
    /\ calls = <<>>
    /\ msg = EmptyMsg
    /\ err = NoErr
    /\ pc = "idle"
    /\ watch = NoWatch
    /\ signals = 0
    /\ wlog = <<>>
    /\ mem = NoMem

\* The caller has taken the result; the next invocation may start.
Finish ==
    /\ pc = "done"
    /\ pc' = "idle"
    /\ inv' = NoInvocation
    /\ calls' = <<>>
    /\ msg' = EmptyMsg
    /\ err' = NoErr
    /\ watch' = NoWatch
    /\ wlog' = <<>>
    /\ mem' = NoMem
    /\ before' = workload
    /\ UNCHANGED <<workload, revisions, replicaSets, signals>>

Next ==
    \/ DaemonSetRollback
    \/ StatefulSetRollback
    \/ DeploymentRollback
    \/ DeploymentViewHistory
    \/ DaemonSetViewHistory
    \/ StatefulSetViewHistory
    \/ WatchEvent
    \/ WatchClosed
    \/ SignalArrives
    \/ WatchSignal
    \/ Finish

Spec == Init /\ [][Next]_vars

(* ------------------------------ properties ---------------------------- *)

ClientVariants == {"DaemonSet", "StatefulSet"}

MutatingCalls == {i \in 1..Len(calls) : Mutating(calls[i])}

PatchCalls == {i \in 1..Len(calls) : calls[i].op = "Patch"}

\* The invocation fetched the workload and listed its snapshots.
HistoryResolved ==
    /\ Len(calls) >= 2
    /\ calls[1].op = "Get" /\ calls[1].ok
    /\ calls[2].op = "List" /\ calls[2].ok

\* The history of the stored workload: the snapshots under its labels
\* that it owns.
History ==
    {r \in revisions : r.labels = Selector /\ r.owner = UID(workload.kind, workload.name)}

DistinctRevisions(H) == \A a, b \in H : a.Revision = b.Revision => a = b

\* The snapshot a target stands for in a history of distinct revisions:
\* the one of that number, or for 0 the one with exactly one above it.
Chosen(H, target) ==
    IF target = 0
    THEN {r \in H : Cardinality({x \in H : x.Revision > r.Revision}) = 1}
    ELSE {r \in H : r.Revision = target}

InsufficientHistory == Err("no last revision to roll back to", 0, <<>>)

PausedWorkload(name) == Err("you cannot rollback a paused deployment", 0, <<name>>)

Skipped(rev) ==
    Msg("%s (current template already matches revision %d)", rev, <<rollbackSkipped>>)

Succeeded == Msg(rollbackSuccess, 0, <<>>)

\* C1: a Rollback with dryRun = true issues no mutating backend call,
\* whatever it returns, and leaves the stored workload as it was.
C1_DryRunNeverMutates ==
    inv.dryRun => (MutatingCalls = {} /\ workload = before)

C1_Witness ==
    /\ pc = "done" /\ inv.dryRun /\ inv.variant = "DaemonSet"
    /\ msg.fmt = "will roll back to %s"
    /\ msg.args # DescribePodTemplate(workload.template)

\* C2 (as claimed): a Rollback that returns an error has had no mutation
\* accepted by the backend.
C2_ErrorMeansUntouched ==
    (pc = "done" /\ err # NoErr) => \A i \in MutatingCalls : ~calls[i].ok

\* C3 (as claimed): a Deployment Rollback on a paused deployment returns
\* the paused error before any backend call, dry run or not.
C3_PausedAlwaysRejected ==
    (pc = "done" /\ inv.variant = "Deployment" /\ inv.obj.kind = "Deployment"
        /\ inv.obj.paused)
    => (err = PausedWorkload(inv.obj.name) /\ calls = <<>>)

\* C3 (amended): a Deployment Rollback with dryRun = false on a paused
\* deployment returns the paused error before any backend call.
C3_PausedRejectedUnlessDryRun ==
    (pc = "done" /\ inv.variant = "Deployment" /\ inv.obj.kind = "Deployment"
        /\ inv.obj.paused /\ ~inv.dryRun)
    => (err = PausedWorkload(inv.obj.name) /\ calls = <<>> /\ msg = EmptyMsg)

C3_Witness ==
    /\ pc = "done" /\ inv.variant = "Deployment" /\ inv.obj.paused /\ ~inv.dryRun
    /\ inv.toRevision > 0
    /\ err = PausedWorkload("web")

\* C4 (as claimed): once the signal case has run, the watch is stopped, no
\* event is received after it, and the wait returns the empty string.
C4_SignalEndsTheWait ==
    Signalled => (/\ watch.stopped
                  /\ \A i, j \in 1..Len(wlog) :
                        (wlog[i].what = "signal" /\ wlog[j].what = "event") => j < i
                  /\ pc = "done" => msg = EmptyMsg)

\* C5: for every order in which the history of the stored workload may be
\* listed, if it has at least 2 snapshots of distinct revisions,
\* findHistory with target 0 returns the one with exactly one revision
\* above it (the second largest), never the largest.  The snapshots do
\* not change, so every history is met where an invocation may start.
C5_PreviousIsSecondLargest ==
    pc = "idle" =>
    \A items \in ListControllerRevisions(Selector) :
        LET h == controlledHistory(items, workload)
            H == {h[i] : i \in 1..Len(h)}
        IN  (Len(h) >= 2 /\ DistinctRevisions(H))
            => \A r \in findHistory(0, h) :
                 /\ r \in H
                 /\ Cardinality({x \in H : x.Revision > r.Revision}) = 1

C5_Witness ==
    /\ pc = "done" /\ inv.variant = "StatefulSet" /\ inv.toRevision = 0 /\ ~inv.dryRun
    /\ Cardinality(History) = 3 /\ DistinctRevisions(History)
    /\ msg = Succeeded
    /\ \E r \in History :
         /\ r.Revision = 2
         /\ \E i \in PatchCalls : calls[i].data = r.Raw
         /\ \A y \in History \ {r} : y.Raw # r.Raw

\* C6: a DaemonSet or StatefulSet Rollback with target 0 that resolved a
\* history of at most one snapshot fails with "no last revision to roll
\* back to" and issues no Patch, dry run or not.
C6_NoLastRevision ==
    (pc = "done" /\ inv.variant \in ClientVariants /\ inv.toRevision = 0
        /\ HistoryResolved /\ Cardinality(History) <= 1)
    => (err = InsufficientHistory /\ msg = EmptyMsg /\ PatchCalls = {})

C6_Witness ==
    /\ pc = "done" /\ inv.variant = "DaemonSet" /\ inv.toRevision = 0 /\ ~inv.dryRun
    /\ HistoryResolved /\ Cardinality(History) = 1
    /\ \A r \in History : ~Match(workload, r)
    /\ err = InsufficientHistory

\* C7: a DaemonSet or StatefulSet Rollback with an explicit target n > 0
\* that resolved a history without a snapshot of revision n fails with
\* "unable to find specified revision n" and issues no Patch.
C7_RevisionNotFound ==
    (pc = "done" /\ inv.variant \in ClientVariants /\ inv.toRevision > 0
        /\ HistoryResolved /\ \A r \in History : r.Revision # inv.toRevision)
    => (err = revisionNotFoundErr(inv.toRevision) /\ msg = EmptyMsg /\ PatchCalls = {})

C7_Witness ==
    /\ pc = "done" /\ inv.variant = "DaemonSet" /\ inv.toRevision = 2 /\ ~inv.dryRun
    /\ HistoryResolved
    /\ {r.Revision : r \in History} = {1, 3}
    /\ err = revisionNotFoundErr(2)

\* The template a snapshot stands for, when its bytes are a patch.
TemplateOf(r) == StrategicMergePatch(before.template, r.Raw)

\* A real rollback resolved a history of distinct revisions in which the
\* target stands for the snapshot r.
RealRollbackTo(r) ==
    /\ pc = "done" /\ inv.variant \in ClientVariants /\ ~inv.dryRun
    /\ inv.toRevision >= 0
    /\ HistoryResolved /\ DistinctRevisions(History)
    /\ inv.toRevision = 0 => Cardinality(History) >= 2
    /\ r \in Chosen(History, inv.toRevision)
    /\ WellFormed(r.Raw)

\* C8: a real DaemonSet or StatefulSet Rollback whose target snapshot
\* carries the template the workload already has issues no mutating call
\* and returns the skipped message without an error.
C8_SkippedWhenUnchanged ==
    \A r \in History :
        (RealRollbackTo(r) /\ TemplateOf(r) = before.template)
        => (MutatingCalls = {} /\ msg = Skipped(inv.toRevision) /\ err = NoErr
            /\ workload = before)

C8_Witness ==
    /\ inv.toRevision = 0 /\ inv.variant = "StatefulSet"
    /\ Cardinality(History) = 3
    /\ \E r \in History : RealRollbackTo(r) /\ TemplateOf(r) = before.template
    /\ msg = Skipped(0)

\* C9: a real DaemonSet or StatefulSet Rollback whose target snapshot
\* carries another template than the workload has issues exactly one
\* Patch, of the workload named by the passed object, with the bytes of
\* that snapshot; when the backend accepts it, it returns "rolled back".
C9_OnePatchOfTheChosenSnapshot ==
    \A r \in History :
        (RealRollbackTo(r) /\ TemplateOf(r) # before.template)
        => /\ Cardinality(MutatingCalls) = 1
           /\ \A i \in MutatingCalls :
                /\ calls[i].op = "Patch"
                /\ calls[i].resource = inv.variant
                /\ calls[i].namespace = inv.obj.namespace
                /\ calls[i].name = inv.obj.name
                /\ calls[i].data = r.Raw
                /\ calls[i].ok => (msg = Succeeded /\ err = NoErr
                                    /\ workload.template = TemplateOf(r))
                /\ ~calls[i].ok => (err # NoErr /\ workload = before)

C9_Witness ==
    /\ inv.toRevision = 0 /\ inv.variant = "DaemonSet"
    /\ {<<r.Revision, r.Raw>> : r \in History} =
           {<<1, getPatch("tA")>>, <<2, getPatch("tB")>>, <<3, getPatch("tA")>>}
    /\ before.template = "tA"
    /\ \E r \in History : RealRollbackTo(r) /\ r.Revision = 2
    /\ Len(calls) = 3 /\ calls[3].op = "Patch" /\ calls[3].data = getPatch("tB")
    /\ msg = Succeeded /\ workload.template = "tB"

\* C10: an invocation issues at most one mutating call (Patch or native
\* rollback); a failed one is not issued again.
C10_AtMostOneMutation == Cardinality(MutatingCalls) <= 1

C10_Witness ==
    /\ pc = "done" /\ inv.variant = "DaemonSet"
    /\ \E i \in PatchCalls : ~calls[i].ok /\ WellFormed(calls[i].data)
    /\ err = Err("failed restoring revision %d: %v", inv.toRevision, <<>>)

\* What the loop received at position i of the wait: an event whose reason
\* is a sentinel, an event of another reason, an object that is no event.
SentinelAt(i) ==
    wlog[i].what = "event" /\ wlog[i].event.isEvent
        /\ wlog[i].event.reason \in SentinelReasons

OtherEventAt(i) ==
    wlog[i].what = "event" /\ wlog[i].event.isEvent
        /\ wlog[i].event.reason \notin SentinelReasons

NoEventAt(i) == wlog[i].what = "event" /\ ~wlog[i].event.isEvent

ClosedAt(i) == wlog[i].what = "closed"

\* The outcome a sentinel event stands for.
Classification(e) ==
    IF e.reason = RollbackDone THEN Succeeded
    ELSE Msg("%s (%s: %s)", 0, <<rollbackSkipped, e.reason, e.message>>)

\* C11: the wait returns at the first event whose reason is a sentinel,
\* with that event's classification ("rolled back" for rollback done, the
\* skipped message with the event's reason and message otherwise) and the
\* watch stopped; an event of any other reason leaves the wait running
\* and the result empty.
C11_FirstSentinelDecides ==
    /\ \A i \in 1..Len(wlog) :
         SentinelAt(i) => /\ i = Len(wlog)
                          /\ pc = "done"
                          /\ msg = Classification(wlog[i].event)
                          /\ err = NoErr
                          /\ watch.stopped
    /\ (Len(wlog) > 0 /\ OtherEventAt(Len(wlog))) => (pc = "watching" /\ msg = EmptyMsg)

C11_Witness ==
    /\ pc = "done" /\ Len(wlog) = 2
    /\ OtherEventAt(1)
    /\ SentinelAt(2) /\ wlog[2].event.reason = RollbackTemplateUnchanged
    /\ msg = Msg("%s (%s: %s)", 0,
                 <<rollbackSkipped, RollbackTemplateUnchanged, wlog[2].event.message>>)
    /\ watch.stopped

RollbackVariants == {"Deployment", "DaemonSet", "StatefulSet"}

IsSkipped(m) ==
    /\ m.fmt \in {"%s (current template already matches revision %d)", "%s (%s: %s)"}
    /\ m.args[1] = rollbackSkipped

IsPreviewed(m) ==
    /\ m.fmt \in {"will roll back to %s", "%s", "\\n%s"}
    /\ \E t \in Templates \cup {TemplateAt(r) : r \in 0..(MaxRevision + 1)} :
          m.args = DescribePodTemplate(t)

IsOutcome(m) == m = Succeeded \/ IsSkipped(m) \/ IsPreviewed(m)

\* C12 (as claimed): a Rollback that returns without an error returns
\* Succeeded, Skipped or Previewed, never an empty message.
C12_AlwaysAnOutcome ==
    (pc = "done" /\ inv.variant \in RollbackVariants /\ err = NoErr) => IsOutcome(msg)

\* C12 (amended): a Rollback that returns without an error returns
\* Succeeded, Skipped or Previewed, or, for a Deployment rollback that is
\* no dry run, the empty message when the wait ended on a closed stream or
\* on an object that is no event.
C12_OutcomeOrNoResult ==
    (pc = "done" /\ inv.variant \in RollbackVariants /\ err = NoErr)
    => \/ IsOutcome(msg)
       \/ /\ msg = EmptyMsg
          /\ inv.variant = "Deployment" /\ ~inv.dryRun
          /\ Len(wlog) > 0
          /\ ClosedAt(Len(wlog)) \/ NoEventAt(Len(wlog))

C12_Witness ==
    /\ pc = "done" /\ inv.variant = "Deployment" /\ ~inv.dryRun /\ err = NoErr
    /\ msg = EmptyMsg
    /\ Len(wlog) = 2 /\ OtherEventAt(1) /\ NoEventAt(2)


\* The replica sets a deployment owns, the revision numbers they carry
\* and the templates recorded under a revision number.
Children(name) == {rs \in replicaSets : rs.owner = UID("Deployment", name)}

Numbered(name) == {rs \in Children(name) : ~RevisionOf(rs).err}

ChildRevisions(name) == {RevisionOf(rs).v : rs \in Numbered(name)}

TemplatesAt(name, v) == {rs.template : rs \in {x \in Numbered(name) : RevisionOf(x).v = v}}

NoRolloutHistory(name) == Err("no rollout history found for deployment %q", 0, <<name>>)

\* A Deployment dry run has listed the replica sets and returned.
DryRunListed ==
    /\ pc = "done" /\ inv.variant = "Deployment" /\ inv.obj.kind = "Deployment"
    /\ inv.dryRun
    /\ Len(calls) = 1 /\ calls[1].op = "List" /\ calls[1].ok

\* C13: a Deployment dry run that listed the replica sets fails with "no
\* rollout history found" when they carry fewer than 2 distinct revision
\* numbers, whatever the target; otherwise a target n > 0 renders a
\* template recorded under revision n, or fails with "unable to find
\* specified revision n" when there is none, and target 0 renders, after
\* a blank line, a template of the revision with exactly one above it.
C13_DryRunOfDeployment ==
    DryRunListed =>
        LET n == inv.obj.name
            R == ChildRevisions(n)
        IN  IF Cardinality(R) < 2
            THEN err = NoRolloutHistory(n) /\ msg = EmptyMsg
            ELSE IF inv.toRevision > 0
            THEN IF inv.toRevision \notin R
                 THEN err = revisionNotFoundErr(inv.toRevision) /\ msg = EmptyMsg
                 ELSE /\ err = NoErr
                      /\ \E t \in TemplatesAt(n, inv.toRevision) :
                            msg = Msg("%s", 0, DescribePodTemplate(t))
            ELSE inv.toRevision = 0 =>
                 /\ err = NoErr
                 /\ \E v \in R :
                      /\ Cardinality({x \in R : x > v}) = 1
                      /\ \E t \in TemplatesAt(n, v) :
                            msg = Msg("\\n%s", 0, DescribePodTemplate(t))

C13_Witness ==
    /\ DryRunListed /\ inv.toRevision = 0
    /\ ChildRevisions("web") = {1, 2, 3}
    /\ Cardinality(Children("web")) = 3
    /\ msg = Msg("\\n%s", 0, DescribePodTemplate(TemplateAt(2)))


Viewers == {"DeploymentHistoryViewer", "DaemonSetHistoryViewer", "StatefulSetHistoryViewer"}

\* A ViewHistory has fetched the workload and listed its children or
\* snapshots, and returned.
Viewed ==
    /\ pc = "done" /\ inv.variant \in Viewers
    /\ Len(calls) = 2 /\ calls[1].ok /\ calls[2].ok

\* The revision numbers of the stored workload's history.
KnownRevisions ==
    IF workload.kind = "Deployment" THEN ChildRevisions(workload.name)
    ELSE {r.Revision : r \in History}

\* The templates the history holds for revision v.
TemplatesOfRevision(v) ==
    IF workload.kind = "Deployment" THEN TemplatesAt(workload.name, v)
    ELSE {StrategicMergePatch(workload.template, r.Raw) : r \in {x \in History : x.Revision = v}}

\* C14 (as claimed): a ViewHistory with revision n > 0 of any of the three
\* viewers, over a history of well-formed snapshots that may be empty,
\* fails with "unable to find the specified revision" when the history has
\* no revision n, and otherwise renders a template of revision n only.
C14_ViewOneRevision ==
    (Viewed /\ inv.toRevision > 0 /\ \A r \in History : WellFormed(r.Raw))
    => IF inv.toRevision \notin KnownRevisions
       THEN err = UnableToFindRevision /\ msg = EmptyMsg
       ELSE /\ err = NoErr
            /\ \E t \in TemplatesOfRevision(inv.toRevision) : msg = printTemplate(t)

\* The rows of a returned table, after the header.
Rows == SubSeq(msg.args, 2, Len(msg.args))

\* C15 (as claimed): a StatefulSet ViewHistory with revision 0 over a
\* non-empty history returns the header REVISION and then one row for a
\* snapshot, each the revision number of a snapshot, in ascending order.
C15_OneRowPerSnapshot ==
    (Viewed /\ inv.variant = "StatefulSetHistoryViewer" /\ inv.toRevision = 0
        /\ History # {})
    => /\ err = NoErr /\ msg.fmt = "table" /\ msg.args[1] = <<"REVISION">>
       /\ Len(Rows) = Cardinality(History)
       /\ \A i \in 1..Len(Rows) : \E r \in History : Rows[i] = <<r.Revision>>
       /\ \A r \in History : \E i \in 1..Len(Rows) : Rows[i] = <<r.Revision>>
       /\ \A i \in 1..(Len(Rows) - 1) : Rows[i][1] <= Rows[i + 1][1]

\* The change causes the history records for revision v: of a replica set
\* its change-cause annotation or, when it has none, the one of its pod
\* template; of a snapshot its change-cause annotation.
CausesOfRevision(v) ==
    IF workload.kind = "Deployment"
    THEN {IF rs.cause # "" THEN rs.cause ELSE rs.templateCause :
              rs \in {x \in Numbered(workload.name) : RevisionOf(x).v = v}}
    ELSE {r.cause : r \in {x \in History : x.Revision = v}}

\* C16: a Deployment or DaemonSet ViewHistory with revision 0 over a
\* non-empty history returns the header REVISION, CHANGE-CAUSE and then
\* one row for every known revision number, in strictly ascending order,
\* each with a change cause recorded for that revision, or <none> when
\* that is absent or empty.
C16_EveryRevisionWithItsCause ==
    (Viewed /\ inv.variant \in {"DeploymentHistoryViewer", "DaemonSetHistoryViewer"}
        /\ inv.toRevision = 0 /\ KnownRevisions # {})
    => /\ err = NoErr /\ msg.fmt = "table" /\ msg.args[1] = <<"REVISION", "CHANGE-CAUSE">>
       /\ {Rows[i][1] : i \in 1..Len(Rows)} = KnownRevisions
       /\ \A i \in 1..(Len(Rows) - 1) : Rows[i][1] < Rows[i + 1][1]
       /\ \A i \in 1..Len(Rows) :
            \E c \in CausesOfRevision(Rows[i][1]) :
                Rows[i][2] = (IF c = "" THEN "<none>" ELSE c)

C16_Witness ==
    /\ Viewed /\ inv.variant = "DaemonSetHistoryViewer" /\ inv.toRevision = 0
    /\ msg = tabbedString(<<"REVISION", "CHANGE-CAUSE">>,
                          <<<<1, "<none>">>, <<2, "kubectl apply">>, <<3, "<none>">>>>)


\* C17: after the reconstruction of a DaemonSet dry run or ViewHistory,
\* the DaemonSet it was given is in memory as it was fetched, template
\* included, the snapshot it was given is one of the stored snapshots,
\* patch data included, and the stored workload is as it was.
C17_ReconstructionLeavesItsArguments ==
    mem.made =>
        /\ mem.ds = before
        /\ mem.ds.template = before.template
        /\ mem.history \in revisions
        /\ workload = before

C17_Witness ==
    /\ pc = "done" /\ inv.variant = "DaemonSetHistoryViewer" /\ inv.toRevision = 2
    /\ mem.made /\ err = NoErr
    /\ msg = printTemplate("tB")
    /\ mem.ds.template = "tA"
    /\ mem.history.Raw = getPatch("tB")


\* C18: a Deployment rollback that is no dry run issues its backend calls
\* in the order List of events, Rollback, Watch of events, each only after
\* the one before it was accepted, and opens the watch from the
\* resourceVersion the List returned, which is not behind the newest event.
C18_ListThenRollbackThenWatch ==
    (pc \in {"watching", "done"} /\ inv.variant = "Deployment" /\ ~inv.dryRun
        /\ calls # <<>>)
    => /\ Len(calls) <= 3
       /\ calls[1].op = "List" /\ calls[1].resource = "Event"
       /\ Len(calls) >= 2 => /\ calls[1].ok
                             /\ calls[2].op = "Rollback"
                             /\ calls[2].rev = inv.toRevision
       /\ Len(calls) = 3 => /\ calls[2].ok
                            /\ calls[3].op = "Watch" /\ calls[3].resource = "Event"
                            /\ calls[3].rev = calls[1].rev
       /\ watch.open => /\ Len(calls) = 3 /\ calls[3].ok
                        /\ watch.from = calls[1].rev
                        /\ watch.from <= watch.head
       /\ pc = "watching" => watch.open

C18_Witness ==
    /\ pc = "watching" /\ inv.variant = "Deployment" /\ ~inv.dryRun
    /\ Len(calls) = 3 /\ calls[3].op = "Watch" /\ calls[3].ok
    /\ watch.head = 1 /\ watch.from = 0


\* The invocation has entered the wait for the rollback's event.
Waited == inv.variant = "Deployment" /\ watch.open

\* The stream has ended for the wait: its channel was closed, or it
\* delivered the object that stands for its failure instead of an event.
StreamEnded == \E i \in 1..Len(wlog) : ClosedAt(i) \/ NoEventAt(i)

C20_ClosedStreamIsNotRetried ==
    \A i \in 1..Len(wlog) :
        ClosedAt(i) => /\ i = Len(wlog)
                       /\ pc = "done" /\ msg = EmptyMsg /\ err = NoErr
                       /\ \A j \in 1..(i - 1) : ~SentinelAt(j)
                       /\ Len(calls) = 3
                       /\ Cardinality({k \in 1..Len(calls) : calls[k].op = "Rollback"}) = 1
                       /\ Cardinality({k \in 1..Len(calls) : calls[k].op = "Watch"}) = 1

C20_Witness ==
    /\ pc = "done" /\ Waited /\ ~watch.stopped /\ watch.closed
    /\ Len(wlog) = 2 /\ OtherEventAt(1) /\ ClosedAt(2)
    /\ msg = EmptyMsg /\ err = NoErr /\ Len(calls) = 3


\* C21: for every order in which the snapshots may be listed, the history
\* resolved for the stored DaemonSet or StatefulSet holds each snapshot
\* that carries the workload's labels and is owned by it, once, and no
\* other snapshot.  The snapshots do not change, so every namespace is
\* met where an invocation may start.
C21_HistoryIsOwnedAndSelected ==
    (pc = "idle" /\ workload.kind \in ClientVariants) =>
    \A h \in workloadHistory(workload.kind, Namespace, workload.name, "none") :
        /\ h.err = NoErr
        /\ {h.history[i] : i \in 1..Len(h.history)} = History
        /\ Len(h.history) = Cardinality(History)

C21_Witness ==
    /\ pc = "done" /\ inv.variant = "DaemonSet" /\ inv.toRevision = MaxRevision
    /\ HistoryResolved
    /\ \E r \in revisions :
         /\ r.Revision = MaxRevision /\ r.labels = Selector /\ WellFormed(r.Raw)
         /\ r.owner = UID("DaemonSet", "db")
    /\ Cardinality(History) = 2
    /\ err = revisionNotFoundErr(MaxRevision)

\* C22: a DaemonSet or StatefulSet Rollback with a target below 0 fails
\* with "unable to find specified revision" for that target and has
\* issued no backend call, dry run or not.
C22_NegativeTargetRejectedFirst ==
    (pc = "done" /\ inv.variant \in ClientVariants /\ inv.toRevision < 0)
    => (err = revisionNotFoundErr(inv.toRevision) /\ msg = EmptyMsg /\ calls = <<>>
        /\ workload = before)

C22_Witness ==
    /\ pc = "done" /\ inv.variant = "StatefulSet" /\ inv.toRevision = 0 - 1 /\ inv.dryRun
    /\ Cardinality(History) >= 2
    /\ err = revisionNotFoundErr(0 - 1) /\ calls = <<>>


\* Two snapshots of the history carry the revision number n.
Duplicated(n) == \E a, b \in History : a # b /\ a.Revision = n /\ b.Revision = n

\* C23 (as claimed): a DaemonSet or StatefulSet Rollback that resolved a
\* history with two snapshots of one revision number, with target 0 or
\* with that number as its target, fails and issues no Patch.
C23_DuplicateRevisionsRejected ==
    (pc = "done" /\ inv.variant \in ClientVariants /\ HistoryResolved
        /\ \E n \in 1..(MaxRevision + 1) :
              Duplicated(n) /\ inv.toRevision \in {0, n})
    => (err # NoErr /\ msg = EmptyMsg /\ PatchCalls = {})

\* What the backend is asked to do by the call c: to read, to write the
\* workload, or something else.
Reads(c) == c.op \in {"Get", "List", "Watch"}

WritesWorkload(c) ==
    \/ c.op = "Patch" /\ c.resource \in ClientVariants
    \/ c.op = "Rollback" /\ c.resource = "Deployment"

\* The calls of the invocation touch no snapshot but to list them, and a
\* ViewHistory only reads.
OnlyReadsSnapshots ==
    \A i \in 1..Len(calls) :
        /\ Reads(calls[i]) \/ WritesWorkload(calls[i])
        /\ calls[i].resource = "ControllerRevision" => calls[i].op = "List"
        /\ inv.variant \in Viewers => Reads(calls[i])

\* C24: no step of a Rollback or ViewHistory of any variant changes the
\* stored snapshots; the calls issued read, or write the workload, never a
\* snapshot, and the calls of a ViewHistory all read.
C24_SnapshotsAreOnlyRead ==
    [][revisions' = revisions /\ OnlyReadsSnapshots']_vars

C24_Witness ==
    /\ pc = "done" /\ inv.variant = "StatefulSet" /\ ~inv.dryRun
    /\ Cardinality(revisions) = 3
    /\ msg = Succeeded /\ workload # before
    /\ \E i \in PatchCalls : calls[i].ok /\ calls[i].resource = "StatefulSet"

\* C25 (as claimed): when the wait of a Deployment rollback returns on a
\* sentinel event, that event is about the deployment being rolled back.
C25_OwnEventDecides ==
    (pc = "done" /\ Waited /\ Len(wlog) > 0 /\ SentinelAt(Len(wlog)))
    => wlog[Len(wlog)].event.about = inv.obj.name

\* What the caller and the backend can tell of one outcome of a Rollback:
\* the calls issued with their patch bytes, the message, the error, and
\* the workload the backend holds afterwards.
Observable(out) ==
    [calls |-> out.calls, msg |-> out.msg, err |-> out.err, workload |-> out.workload]

ObservableOutcomes(variant, obj, updatedAnnotations, toRevision, dryRun, fail) ==
    {Observable(out) :
        out \in IF variant = "DaemonSet"
                THEN DaemonSetRollbackOutcomes(obj, updatedAnnotations, toRevision, dryRun,
                                               fail)
                ELSE StatefulSetRollbackOutcomes(obj, updatedAnnotations, toRevision,
                                                 dryRun, fail)}

\* C26: against one backend state, two DaemonSet or StatefulSet Rollback
\* invocations that differ only in updatedAnnotations have the same
\* possible outcomes: the same calls with the same patch bytes, the same
\* message and the same error.
C26_AnnotationsIgnored ==
    (pc = "idle" /\ workload.kind \in ClientVariants) =>
    \A obj \in Objs, toRevision \in Targets, dryRun \in BOOLEAN,
       fail \in {"none", "List", "Patch"} :
        Cardinality({ObservableOutcomes(workload.kind, obj, a, toRevision, dryRun, fail) :
                         a \in Annotations}) = 1

\* A DaemonSet rollback invoked with an annotation to record went through:
\* one accepted Patch, whose bytes are those of a snapshot of the history.
C26_Witness ==
    /\ pc = "done" /\ inv.variant = "DaemonSet" /\ ~inv.dryRun
    /\ inv.updatedAnnotations = "change-cause=undo"
    /\ msg = Succeeded /\ err = NoErr /\ workload # before
    /\ Cardinality(PatchCalls) = 1
    /\ \A i \in PatchCalls :
          calls[i].ok /\ \E h \in History : calls[i].data = h.Raw

====
